---- MODULE Spec2Model ----
(***************************************************************************)
(* Model of the refactored order pipeline of                               *)
(* exemplos/refactoring/antes_depois.py: Order / OrderItem, the discount   *)
(* and shipping strategies, InMemoryOrderRepository and                    *)
(* OrderProcessor.process_order.                                           *)
(*                                                                         *)
(* A Decimal is modelled as an integer number of 1/10000 (four fractional  *)
(* digits): prices and thresholds have two fractional digits, percentages  *)
(* have two, so every product the code forms is exact in this unit, as it  *)
(* is in Python's Decimal.  Message texts are written without accents.     *)
(***************************************************************************)
EXTENDS Integers, Sequences, FiniteSets

\* ------------------------------------------------------------------ bounds
MaxOrders == 2
MaxItems == 2
MaxValidations == 3
MaxConstructions == 3
MaxLogs == 2
NumCallers == 2

\* ---------------------------------------------------------------- decimals
Scale == 100 * 100

\* Decimal('<whole>.<cents>')
Dec(whole, cents) == whole * Scale + cents * 100

\* Decimal.__mul__ of two values with at most two fractional digits each
Mul(a, b) == (a \div Scale) * b + ((a % Scale) * b) \div Scale

\* ------------------------------------------------------------ domain model
\* OrderItem.get_subtotal
ItemSubtotal(item) == item.price * item.quantity

RECURSIVE SumSubtotals(_)
SumSubtotals(items) ==
    IF items = <<>> THEN 0
    ELSE ItemSubtotal(Head(items)) + SumSubtotals(Tail(items))

\* Order.get_subtotal
get_subtotal(order) == SumSubtotals(order.items)

NoError == [type |-> "None"]
ValueError(msg) == [type |-> "ValueError", msg |-> msg]
OtherError(msg) == [type |-> "Exception", msg |-> msg]

\* Order.validate with the quantity check left out
validate_no_quantity(order) ==
    IF order.customer_email = "" THEN ValueError("Email do cliente e obrigatorio")
    ELSE IF order.items = <<>> THEN ValueError("Pedido deve ter pelo menos um item")
    ELSE NoError

\* Order.validate with the item-list check made before the email check
validate_items_first(order) ==
    IF order.items = <<>> THEN ValueError("Pedido deve ter pelo menos um item")
    ELSE IF order.customer_email = "" THEN ValueError("Email do cliente e obrigatorio")
    ELSE IF ~(\A i \in 1..Len(order.items) : order.items[i].quantity > 0)
         THEN ValueError("Quantidade deve ser maior que zero")
    ELSE NoError

\* Order.validate: the exception it raises, or NoError
validate(order) ==
    IF order.customer_email = "" THEN ValueError("Email do cliente e obrigatorio")
    ELSE IF order.items = <<>> THEN ValueError("Pedido deve ter pelo menos um item")
    ELSE IF ~(\A i \in 1..Len(order.items) : order.items[i].quantity > 0)
         THEN ValueError("Quantidade deve ser maior que zero")
    ELSE NoError

\* -------------------------------------------------------- discount strategies
NoDiscount == [kind |-> "NoDiscount"]
PercentageDiscount(min_value, percentage) ==
    [kind |-> "PercentageDiscount", min_value |-> min_value, percentage |-> percentage]
TieredDiscount == [kind |-> "TieredDiscount"]

NoDiscount_calculate(subtotal) == Dec(0, 0)

Percentage_calculate(self, subtotal) ==
    IF subtotal >= self.min_value THEN Mul(subtotal, self.percentage)
    ELSE Dec(0, 0)

\* TieredDiscount.calculate_discount with exclusive tier bounds
Tiered_calculate_exclusive(subtotal) ==
    IF subtotal > Dec(500, 0) THEN Mul(subtotal, Dec(0, 20))
    ELSE IF subtotal > Dec(100, 0) THEN Mul(subtotal, Dec(0, 10))
    ELSE Dec(0, 0)

Tiered_calculate(subtotal) ==
    IF subtotal >= Dec(500, 0) THEN Mul(subtotal, Dec(0, 20))
    ELSE IF subtotal >= Dec(100, 0) THEN Mul(subtotal, Dec(0, 10))
    ELSE Dec(0, 0)

\* DiscountStrategy.calculate_discount, dispatched on the implementation
calculate_discount(self, subtotal) ==
    IF self.kind = "NoDiscount" THEN NoDiscount_calculate(subtotal)
    ELSE IF self.kind = "PercentageDiscount" THEN Percentage_calculate(self, subtotal)
    ELSE Tiered_calculate(subtotal)

\* -------------------------------------------------------- shipping strategy
StandardShipping(free_shipping_threshold, base_cost) ==
    [threshold |-> free_shipping_threshold, base_cost |-> base_cost]

\* StandardShipping.calculate_shipping with an exclusive threshold
calculate_shipping_exclusive(self, subtotal) ==
    IF subtotal > self.threshold THEN Dec(0, 0) ELSE self.base_cost

calculate_shipping(self, subtotal) ==
    IF subtotal >= self.threshold THEN Dec(0, 0) ELSE self.base_cost

\* ---------------------------------------------------------------- repository
\* InMemoryOrderRepository.save, line 213, numbering from the store length
order_id_from_zero(store) == Len(store)

\* InMemoryOrderRepository.save, line 213
next_order_id(store) == Len(store) + 1

OrderRecord(order_id, order, total) ==
    [id |-> order_id, customer_email |-> order.customer_email, total |-> total]

\* InMemoryOrderRepository.save that returns an id without appending
save_without_append(store, order, total) == store

\* InMemoryOrderRepository.save that assigns a new list instead of appending
save_replace_store(store, order, total) ==
    <<OrderRecord(next_order_id(store), order, total)>>

\* InMemoryOrderRepository.save: the store after the call
save(store, order, total) ==
    Append(store, OrderRecord(next_order_id(store), order, total))

\* ------------------------------------------------------------------- inputs
Emails == {"", "cliente@example.com"}
Prices == {Dec(50, 0)}
Quantities == {-1, 0, 2}
Items == [price : Prices, quantity : Quantities]
ItemLists == UNION {[1..n -> Items] : n \in 0..MaxItems}
Orders == [customer_email : Emails, items : ItemLists]

PipelineDiscounts ==
    {NoDiscount, TieredDiscount,
     PercentageDiscount(Dec(200, 0), Dec(0, 15)),
     PercentageDiscount(Dec(0, 0), Dec(1, 50))}
ShippingStrategies == {StandardShipping(Dec(200, 0), Dec(10, 0))}

\* what an injected OrderRepository / NotificationService call may raise
SaveOutcomes == {NoError, ValueError("registro invalido"), OtherError("storage indisponivel")}
NotifyOutcomes == {NoError, ValueError("email invalido"), OtherError("smtp indisponivel")}

MinValues == {Dec(0, 0), Dec(100, 0), Dec(500, 0)}
Percentages == {0 - Dec(0, 10), Dec(0, 0), Dec(0, 15), Dec(1, 0), Dec(1, 50)}
DiscountStrategies ==
    {NoDiscount, TieredDiscount}
    \cup {PercentageDiscount(m, p) : m \in MinValues, p \in Percentages}
SubtotalSamples ==
    {Dec(0, 0), Dec(0, 1), Dec(99, 99), Dec(100, 0), Dec(100, 1),
     Dec(499, 99), Dec(500, 0), Dec(500, 1), Dec(1000, 0)}

Thresholds == {Dec(0, 0), Dec(200, 0)}
BaseCosts == {Dec(10, 0), Dec(15, 50)}
StandardShippings == {StandardShipping(t, b) : t \in Thresholds, b \in BaseCosts}
ShippingSamples == {Dec(0, 0), Dec(0, 1), Dec(199, 99), Dec(200, 0), Dec(200, 1)}

\* -------------------------------------------------------------------- state
VARIABLES
    orders,     \* InMemoryOrderRepository.orders
    returned,   \* the identifiers save has returned, in order
    before,     \* the store, the returned ids and the order when the last process_order call began
    order,      \* the order given to the last process_order call
    calls,      \* the collaborator calls of the last process_order call
    result,     \* what the last process_order call returned
    calc,       \* the last direct calculate_discount call
    shipcalc,   \* the last direct calculate_shipping call
    subject,    \* an Order object that validate is called on
    built,      \* the fields that Order object was constructed with
    verdicts,   \* what each validate call on it raised, in order
    heap,       \* the objects the singleton classes have created; a reference is an index
    meta_instances,  \* SingletonMeta._instances: class -> reference, 0 when absent
    deco_instances,  \* the instances dict of singleton(Logger): class -> reference, 0 when absent
    config_instance, \* Configuration._instance, 0 for None
    refs,       \* per class, the references its construction calls returned, in order
    logged,     \* the messages passed to log, through any reference, in order
    configured, \* per key, the value last passed to set through any reference
    cfg_before, \* the settings reference and contents when the last Configuration() call began
    pc,         \* per concurrent caller of save: "idle" or "append"
    frame       \* per concurrent caller of save: its local variables

vars == <<orders, returned, before, order, calls, result, calc, shipcalc,
          subject, built, verdicts, heap, meta_instances, deco_instances,
          config_instance, refs, logged, configured, cfg_before, pc, frame>>

\* ---------------------------------------------------------------- singletons
SingletonClasses == {"Database", "Logger", "Configuration"}
Keys == {"app_name", "test_key"}
Values == {"MyApp", "test_value"}
Messages == {"Test message 1", "Test message 2"}
None == "<None>"
NoSnapshot == [ref |-> 0, items |-> [k \in Keys |-> None]]

\* Database.__init__
Database_init == [cls |-> "Database", connection |-> "Database Connection"]
\* Logger.__init__
Logger_init == [cls |-> "Logger", logs |-> <<>>]
\* {}
EmptyDict == [cls |-> "dict", items |-> [k \in Keys |-> None]]

\* SingletonMeta.__call__ without the membership test
SingletonMeta_call_always_new(instances, cls, hp) ==
    LET hp2 == Append(hp, Database_init)
    IN  [instances |-> [instances EXCEPT ![cls] = Len(hp2)], heap |-> hp2, ret |-> Len(hp2)]

\* SingletonMeta.__call__(cls): the _instances dict and the heap after the
\* call, and the reference returned
SingletonMeta_call(instances, cls, hp) ==
    IF instances[cls] = 0
    THEN LET hp2 == Append(hp, Database_init)
         IN  [instances |-> [instances EXCEPT ![cls] = Len(hp2)], heap |-> hp2,
              ret |-> Len(hp2)]
    ELSE [instances |-> instances, heap |-> hp, ret |-> instances[cls]]

\* get_instance() of singleton(cls)
get_instance(instances, cls, hp) ==
    IF instances[cls] = 0
    THEN LET hp2 == Append(hp, Logger_init)
         IN  [instances |-> [instances EXCEPT ![cls] = Len(hp2)], heap |-> hp2,
              ret |-> Len(hp2)]
    ELSE [instances |-> instances, heap |-> hp, ret |-> instances[cls]]

\* Configuration.__new__(cls): _instance and the heap after the call
Configuration_new(instance, hp) ==
    IF instance = 0
    THEN LET hp2 == Append(hp, [cls |-> "Configuration", initialized |-> FALSE,
                                settings |-> 0])
         IN  [instance |-> Len(hp2), heap |-> hp2]
    ELSE [instance |-> instance, heap |-> hp]

\* Configuration.__init__ without the _initialized test
Configuration_init_every_time(hp, self) ==
    LET hp2 == Append(hp, EmptyDict)
    IN  [hp2 EXCEPT ![self].initialized = TRUE, ![self].settings = Len(hp2)]

\* Configuration.__init__(self): the heap after the call
Configuration_init(hp, self) ==
    IF hp[self].initialized THEN hp
    ELSE LET hp2 == Append(hp, EmptyDict)
         IN  [hp2 EXCEPT ![self].initialized = TRUE, ![self].settings = Len(hp2)]

\* Configuration.get(key) through the reference r
Configuration_get(hp, r, key) == hp[hp[r].settings].items[key]

\* Configuration.set(key, value) through the reference r
Configuration_set(hp, r, key, value) ==
    [hp EXCEPT ![hp[r].settings].items[key] = value]

\* Logger.log(message) through the reference r
Logger_log(hp, r, message) == [hp EXCEPT ![r].logs = Append(@, message)]

validateVars == <<subject, built, verdicts>>
singletonVars == <<heap, meta_instances, deco_instances, config_instance, refs, logged,
                   configured, cfg_before>>

Callers == 1..NumCallers
NoOrder == [customer_email |-> "", items |-> <<>>]
NoResult == [success |-> FALSE, error |-> <<>>]
NoCalc == [strategy |-> NoDiscount, subtotal |-> 0, discount |-> 0]
NoShipCalc == [strategy |-> StandardShipping(0, 0), subtotal |-> 0, shipping |-> 0]
NoFrame == [order_id |-> 0]

Init ==
    /\ orders = <<>>
    /\ returned = <<>>
    /\ before = [orders |-> <<>>, returned |-> <<>>, order |-> NoOrder]
    /\ order = NoOrder
    /\ calls = <<>>
    /\ result = NoResult
    /\ calc = NoCalc
    /\ shipcalc = NoShipCalc
    /\ subject = NoOrder
    /\ built = NoOrder
    /\ verdicts = <<>>
    /\ heap = <<>>
    /\ meta_instances = [c \in {"Database"} |-> 0]
    /\ deco_instances = [c \in {"Logger"} |-> 0]
    /\ config_instance = 0
    /\ refs = [c \in SingletonClasses |-> <<>>]
    /\ logged = <<>>
    /\ configured = [k \in Keys |-> None]
    /\ cfg_before = NoSnapshot
    /\ pc = [c \in Callers |-> "idle"]
    /\ frame = [c \in Callers |-> NoFrame]

\* ------------------------------------------------------------ process_order
ValidateCall == [op |-> "validate"]
SaveCall(total, raised, order_id) ==
    [op |-> "save", total |-> total, raised |-> raised, order_id |-> order_id]
NotifyCall(email, order_id, total, raised) ==
    [op |-> "notify", email |-> email, order_id |-> order_id, total |-> total,
     raised |-> raised]

\* the success dict (lines 290-297).  It holds float(amount) of each amount;
\* the amounts are kept exact here: float() keeps sign and order, and every
\* amount the inputs below produce is a whole number, which binary64 holds
\* exactly.
Success(order_id, subtotal, discount, shipping, total) ==
    [success |-> TRUE, order_id |-> order_id, subtotal |-> subtotal,
     discount |-> discount, shipping |-> shipping, total |-> total]

\* the two except clauses of process_order; a message is the sequence of its parts
except_clauses(e) ==
    IF e.type = "ValueError" THEN [success |-> FALSE, error |-> <<e.msg>>]
    ELSE [success |-> FALSE, error |-> <<"Erro inesperado: ", e.msg>>]

\* process_order that sends the notification a second time when it fails
process_order_retry_notify(o, ds, ss, saveExc, notifyExc) ==
    LET v == validate(o)
        subtotal == get_subtotal(o)
        discount == calculate_discount(ds, subtotal)
        shipping == calculate_shipping(ss, subtotal)
        total == subtotal - discount + shipping
        stored == save(orders, o, total)
        order_id == next_order_id(orders)
        raised == IF v # NoError THEN v
                  ELSE IF saveExc # NoError THEN saveExc
                  ELSE notifyExc
    IN  /\ before' = [orders |-> orders, returned |-> returned, order |-> o]
        /\ order' = o
        /\ calls' =
              IF v # NoError THEN <<ValidateCall>>
              ELSE IF saveExc # NoError
                   THEN <<ValidateCall, SaveCall(total, saveExc, 0)>>
              ELSE IF notifyExc # NoError
                   THEN <<ValidateCall, SaveCall(total, NoError, order_id),
                          NotifyCall(o.customer_email, order_id, total, notifyExc),
                          NotifyCall(o.customer_email, order_id, total, notifyExc)>>
              ELSE <<ValidateCall, SaveCall(total, NoError, order_id),
                     NotifyCall(o.customer_email, order_id, total, notifyExc)>>
        /\ orders' = IF v = NoError /\ saveExc = NoError THEN stored ELSE orders
        /\ returned' = IF v = NoError /\ saveExc = NoError
                       THEN Append(returned, order_id) ELSE returned
        /\ result' = IF raised = NoError
                     THEN Success(order_id, subtotal, discount, shipping, total)
                     ELSE except_clauses(raised)

\* OrderProcessor.process_order(o) of a processor built with the strategies ds
\* and ss, whose repository.save raises saveExc and whose notification
\* service raises notifyExc (NoError: the call returns)
process_order(o, ds, ss, saveExc, notifyExc) ==
    LET v == validate(o)
        subtotal == get_subtotal(o)
        discount == calculate_discount(ds, subtotal)
        shipping == calculate_shipping(ss, subtotal)
        total == subtotal - discount + shipping
        stored == save(orders, o, total)
        order_id == next_order_id(orders)
        raised == IF v # NoError THEN v
                  ELSE IF saveExc # NoError THEN saveExc
                  ELSE notifyExc
    IN  /\ before' = [orders |-> orders, returned |-> returned, order |-> o]
        /\ order' = o
        /\ calls' =
              IF v # NoError THEN <<ValidateCall>>
              ELSE IF saveExc # NoError
                   THEN <<ValidateCall, SaveCall(total, saveExc, 0)>>
              ELSE <<ValidateCall, SaveCall(total, NoError, order_id),
                     NotifyCall(o.customer_email, order_id, total, notifyExc)>>
        /\ orders' = IF v = NoError /\ saveExc = NoError THEN stored ELSE orders
        /\ returned' = IF v = NoError /\ saveExc = NoError
                       THEN Append(returned, order_id) ELSE returned
        /\ result' = IF raised = NoError
                     THEN Success(order_id, subtotal, discount, shipping, total)
                     ELSE except_clauses(raised)

ProcessOrder ==
    /\ Len(orders) < MaxOrders
    /\ \E o \in Orders :
          IF validate(o) # NoError
          THEN process_order(o, NoDiscount,
                             CHOOSE ss \in ShippingStrategies : TRUE, NoError, NoError)
          ELSE \E ds \in PipelineDiscounts, ss \in ShippingStrategies,
                  saveExc \in SaveOutcomes, notifyExc \in NotifyOutcomes :
                  process_order(o, ds, ss, saveExc, notifyExc)
    /\ UNCHANGED <<calc, shipcalc, validateVars, singletonVars, pc, frame>>

Next == ProcessOrder

Spec == Init /\ [][Next]_vars

\* ------------------------------------------- strategies called on their own
CalculateDiscount ==
    /\ \E st \in DiscountStrategies, subtotal \in SubtotalSamples :
          calc' = [strategy |-> st, subtotal |-> subtotal,
                   discount |-> calculate_discount(st, subtotal)]
    /\ UNCHANGED <<orders, returned, before, order, calls, result, shipcalc,
                   validateVars, singletonVars, pc, frame>>

CalculateShipping ==
    /\ \E st \in StandardShippings, subtotal \in ShippingSamples :
          shipcalc' = [strategy |-> st, subtotal |-> subtotal,
                       shipping |-> calculate_shipping(st, subtotal)]
    /\ UNCHANGED <<orders, returned, before, order, calls, result, calc,
                   validateVars, singletonVars, pc, frame>>

NextStrategy == CalculateDiscount \/ CalculateShipping

SpecStrategy == Init /\ [][NextStrategy]_vars

\* ------------------------------- save called by several callers at once
ValidOrders == {o \in Orders : validate(o) = NoError}
SaveTotals == {Dec(100, 0), Dec(110, 0), Dec(200, 0)}
InFlight == Cardinality({c \in Callers : pc[c] = "append"})

\* line 213: order_id = len(self.orders) + 1
SaveRead(c) ==
    /\ pc[c] = "idle"
    /\ Len(orders) + InFlight < MaxOrders
    /\ \E o \in ValidOrders, total \in SaveTotals :
          frame' = [frame EXCEPT ![c] =
                       [order_id |-> next_order_id(orders), order |-> o, total |-> total]]
    /\ pc' = [pc EXCEPT ![c] = "append"]
    /\ UNCHANGED <<orders, returned, before, order, calls, result, calc, shipcalc,
                   validateVars, singletonVars>>

\* lines 214-219: self.orders.append({...}); return order_id
SaveAppend(c) ==
    /\ pc[c] = "append"
    /\ orders' = Append(orders,
                        OrderRecord(frame[c].order_id, frame[c].order, frame[c].total))
    /\ returned' = Append(returned, frame[c].order_id)
    /\ pc' = [pc EXCEPT ![c] = "idle"]
    /\ frame' = [frame EXCEPT ![c] = NoFrame]
    /\ UNCHANGED <<before, order, calls, result, calc, shipcalc, validateVars,
                   singletonVars>>

NextConcurrent == \E c \in Callers : SaveRead(c) \/ SaveAppend(c)

SpecConcurrent == Init /\ [][NextConcurrent]_vars

\* ------------------------------------------------- validate called on its own
pipelineVars == <<orders, returned, before, order, calls, result, calc, shipcalc, pc, frame>>

\* Order(customer_email, items): the dataclass constructor
ConstructOrder ==
    /\ \E o \in Orders :
          /\ subject' = o
          /\ built' = o
    /\ verdicts' = <<>>
    /\ UNCHANGED <<pipelineVars, singletonVars>>

\* subject.validate(): it reads the fields and assigns none
ValidateOrder ==
    /\ Len(verdicts) < MaxValidations
    /\ verdicts' = Append(verdicts, validate(subject))
    /\ UNCHANGED <<subject, built>>
    /\ UNCHANGED <<pipelineVars, singletonVars>>

NextValidate == ConstructOrder \/ ValidateOrder

SpecValidate == Init /\ [][NextValidate]_vars

\* ----------------------------------------------------- the singleton classes
notSingletonVars == <<pipelineVars, validateVars>>
RefsOf(cls) == {refs[cls][i] : i \in 1..Len(refs[cls])}

\* Database()
NewDatabase ==
    /\ Len(refs["Database"]) < MaxConstructions
    /\ LET r == SingletonMeta_call(meta_instances, "Database", heap)
       IN  /\ meta_instances' = r.instances
           /\ heap' = r.heap
           /\ refs' = [refs EXCEPT !["Database"] = Append(@, r.ret)]
    /\ UNCHANGED <<deco_instances, config_instance, logged, configured, cfg_before>>
    /\ UNCHANGED notSingletonVars

\* Logger()
NewLogger ==
    /\ Len(refs["Logger"]) < MaxConstructions
    /\ LET r == get_instance(deco_instances, "Logger", heap)
       IN  /\ deco_instances' = r.instances
           /\ heap' = r.heap
           /\ refs' = [refs EXCEPT !["Logger"] = Append(@, r.ret)]
    /\ UNCHANGED <<meta_instances, config_instance, logged, configured, cfg_before>>
    /\ UNCHANGED notSingletonVars

\* logger.log(message) through any reference a Logger() call returned
LoggerLog ==
    /\ Len(logged) < MaxLogs
    /\ \E r \in RefsOf("Logger"), message \in Messages :
          /\ heap' = Logger_log(heap, r, message)
          /\ logged' = Append(logged, message)
    /\ UNCHANGED <<meta_instances, deco_instances, config_instance, refs, configured,
                   cfg_before>>
    /\ UNCHANGED notSingletonVars

\* Configuration(): __new__, then __init__ on the instance it returned
NewConfiguration ==
    /\ Len(refs["Configuration"]) < MaxConstructions
    /\ LET n == Configuration_new(config_instance, heap)
       IN  /\ config_instance' = n.instance
           /\ heap' = Configuration_init(n.heap, n.instance)
           /\ refs' = [refs EXCEPT !["Configuration"] = Append(@, n.instance)]
    /\ cfg_before' =
          IF config_instance = 0 THEN NoSnapshot
          ELSE [ref |-> heap[config_instance].settings,
                items |-> heap[heap[config_instance].settings].items]
    /\ UNCHANGED <<meta_instances, deco_instances, logged, configured>>
    /\ UNCHANGED notSingletonVars

\* config.set(key, value) through any reference a Configuration() call returned
ConfigurationSet ==
    /\ \E r \in RefsOf("Configuration"), key \in Keys, value \in Values :
          /\ heap' = Configuration_set(heap, r, key, value)
          /\ configured' = [configured EXCEPT ![key] = value]
    /\ cfg_before' = NoSnapshot
    /\ UNCHANGED <<meta_instances, deco_instances, config_instance, refs, logged>>
    /\ UNCHANGED notSingletonVars

NextSingleton ==
    \/ NewDatabase
    \/ NewLogger
    \/ LoggerLog
    \/ NewConfiguration
    \/ ConfigurationSet

SpecSingleton == Init /\ [][NextSingleton]_vars

\* ------------------------------------------------------------------- claims
CallsOf(op) == {i \in 1..Len(calls) : calls[i].op = op}
Failed(call) == call.raised # NoError
Verbatim(res) == ~res.success /\ Len(res.error) = 1
Unexpected(res) == ~res.success /\ Len(res.error) = 2 /\ res.error[1] = "Erro inesperado: "

\* the orders the first claim speaks of, in its own words
Rejectable(o) ==
    \/ o.customer_email = ""
    \/ o.items = <<>>
    \/ \E i \in 1..Len(o.items) : o.items[i].quantity <= 0

\* C1: a process_order call on an order with an empty customer identifier, an
\* empty item list or an item of quantity <= 0 returns a failure result, leaves
\* the repository's store as it was (no record added, no id returned) and
\* makes no notification call.
C1_InvalidOrderLeavesStore ==
    (calls # <<>> /\ Rejectable(order))
        => /\ ~result.success
           /\ orders = before.orders
           /\ returned = before.returned
           /\ CallsOf("notify") = {}

C1_Witness ==
    /\ calls = <<ValidateCall>>
    /\ order.customer_email # ""
    /\ Len(order.items) = 2
    /\ order.items[1].quantity > 0
    /\ order.items[2].quantity <= 0
    /\ ~result.success
    /\ Len(orders) = 1

\* C2: every success result of process_order satisfies
\* total = subtotal - discount + shipping and total >= 0.
C2_TotalIsSumAndNonNegative ==
    result.success
        => /\ result.total = result.subtotal - result.discount + result.shipping
           /\ result.total >= 0

\* C3: when several callers run save at once, with the read of the store
\* length and the append interleaved in any order, every returned identifier
\* is unique and no two stored records carry the same id.
C3_ConcurrentIdsUnique ==
    /\ \A i, j \in 1..Len(returned) : i # j => returned[i] # returned[j]
    /\ \A i, j \in 1..Len(orders) : i # j => orders[i].id # orders[j].id

\* C4: in a sequential series of save calls on one repository the first call
\* returns 1 and every later call returns an identifier strictly greater than
\* every identifier returned before.
C4_SequentialIdsIncrease ==
    /\ returned # <<>> => returned[1] = 1
    /\ \A i, j \in 1..Len(returned) : i < j => returned[i] < returned[j]

C4_Witness == Len(returned) = 2 /\ returned[2] = 2

\* C5: if the notification service fails during process_order, the result is
\* a failure and the repository holds a record under the id assigned in that
\* call whose total is the total the call computed.
C5_RecordKeptWhenNotifyFails ==
    \A n \in CallsOf("notify") :
        Failed(calls[n])
            => /\ ~result.success
               /\ \E s \in CallsOf("save"), k \in 1..Len(orders) :
                     /\ s < n
                     /\ orders[k].id = calls[s].order_id
                     /\ orders[k].id = calls[n].order_id
                     /\ orders[k].total = calls[s].total
                     /\ orders[k].total = calls[n].total

C5_Witness ==
    /\ \E n \in CallsOf("notify") : calls[n].raised.type = "Exception"
    /\ Len(orders) = 2
    /\ Unexpected(result)

\* C6: if repository.save fails the result is a failure of the
\* unexpected-error kind and the notification service is not called; every
\* notification attempt carries the id of an order whose save completed
\* earlier in the same call.
C6_NoNotifyWithoutSave ==
    /\ \A s \in CallsOf("save") :
          Failed(calls[s]) => Unexpected(result) /\ CallsOf("notify") = {}
    /\ \A n \in CallsOf("notify") :
          \E s \in CallsOf("save") :
             s < n /\ ~Failed(calls[s]) /\ calls[s].order_id = calls[n].order_id

\* C7: process_order always returns a result, and an error raised by the
\* repository or the notification service (not a validation error) is
\* reported as an unexpected error whose message contains the error's message.
C7_CollaboratorErrorsAreUnexpected ==
    /\ calls # <<>> => result.success \in BOOLEAN
    /\ \A i \in CallsOf("save") \cup CallsOf("notify") :
          Failed(calls[i])
             => /\ Unexpected(result)
                /\ \E k \in 1..Len(result.error) : result.error[k] = calls[i].raised.msg

\* C8: a failure whose message is reported verbatim, without the
\* unexpected-error wrapping, is returned only when order.validate() failed,
\* so no record was saved and no notification was sent in that call.
C8_VerbatimOnlyFromValidate ==
    (calls # <<>> /\ Verbatim(result))
        => /\ validate(order) # NoError
           /\ CallsOf("save") = {}
           /\ CallsOf("notify") = {}

\* C9: for every discount strategy and every subtotal >= 0,
\* calculate_discount(subtotal) lies between 0 and the subtotal.
C9_DiscountWithinSubtotal ==
    calc.subtotal >= 0 => (0 <= calc.discount /\ calc.discount <= calc.subtotal)

\* C10: TieredDiscount gives 20% of the subtotal from 500 up, 10% of it from
\* 100 up to below 500, and 0 below 100; 99.99 gives 0, 100.00 gives 10.00 and
\* 500.00 gives 100.00.
C10_TieredDiscountTiers ==
    calc.strategy = TieredDiscount
        => /\ calc.subtotal >= Dec(500, 0) => calc.discount * 5 = calc.subtotal
           /\ (calc.subtotal >= Dec(100, 0) /\ calc.subtotal < Dec(500, 0))
                 => calc.discount * 10 = calc.subtotal
           /\ calc.subtotal < Dec(100, 0) => calc.discount = 0
           /\ calc.subtotal = Dec(99, 99) => calc.discount = 0
           /\ calc.subtotal = Dec(100, 0) => calc.discount = Dec(10, 0)
           /\ calc.subtotal = Dec(500, 0) => calc.discount = Dec(100, 0)

C10_Witness ==
    /\ calc.strategy = TieredDiscount
    /\ calc.subtotal = Dec(500, 0)
    /\ calc.discount = Dec(100, 0)

\* C11: StandardShipping.calculate_shipping returns 0 for every subtotal at or
\* above free_shipping_threshold (the threshold itself included) and base_cost
\* for every subtotal below it (one cent below included).
C11_ShippingThreshold ==
    /\ shipcalc.subtotal >= shipcalc.strategy.threshold => shipcalc.shipping = 0
    /\ shipcalc.subtotal < shipcalc.strategy.threshold
          => shipcalc.shipping = shipcalc.strategy.base_cost
    /\ shipcalc.subtotal = shipcalc.strategy.threshold => shipcalc.shipping = 0
    /\ shipcalc.subtotal = shipcalc.strategy.threshold - Dec(0, 1)
          => shipcalc.shipping = shipcalc.strategy.base_cost

C11_Witness ==
    /\ shipcalc.strategy = StandardShipping(Dec(200, 0), Dec(10, 0))
    /\ shipcalc.subtotal = Dec(200, 0)
    /\ shipcalc.shipping = 0

\* the three conditions of a valid order, in the order the claim gives them,
\* and the reason reported for each
Violated(o) ==
    {n \in 1..3 :
        \/ n = 1 /\ o.customer_email = ""
        \/ n = 2 /\ o.items = <<>>
        \/ n = 3 /\ \E i \in 1..Len(o.items) : o.items[i].quantity <= 0}
Reasons ==
    <<"Email do cliente e obrigatorio", "Pedido deve ter pelo menos um item",
      "Quantidade deve ser maior que zero">>
FirstViolated(o) == CHOOSE n \in Violated(o) : \A m \in Violated(o) : n <= m

\* C12: Order.validate fails with the reason of the first violated condition
\* in the order customer identifier, item list, quantities (the earliest one
\* when several are violated), and validating leaves the order unchanged, so
\* repeated validations give the same outcome.
C12_ValidateFirstViolation ==
    /\ \A i \in 1..Len(verdicts) :
          /\ Violated(built) = {} => verdicts[i] = NoError
          /\ Violated(built) # {}
                => /\ verdicts[i].type = "ValueError"
                   /\ verdicts[i].msg = Reasons[FirstViolated(built)]
          /\ verdicts[i] = verdicts[1]
    /\ subject = built

C12_Witness ==
    /\ Len(verdicts) = 2
    /\ Cardinality(Violated(built)) = 2
    /\ built.customer_email = ""
    /\ verdicts[2].msg = Reasons[1]

\* C13: for Database, Logger and Configuration every construction call
\* returns the instance the first call returned, so the log entries and the
\* settings written through one reference are seen through every other one.
C13_OneSharedInstance ==
    /\ \A cls \in SingletonClasses :
          \A i \in 1..Len(refs[cls]) : refs[cls][i] = refs[cls][1]
    /\ \A r \in RefsOf("Logger") : heap[r].logs = logged
    /\ \A r \in RefsOf("Configuration") :
          \A key \in Keys : Configuration_get(heap, r, key) = configured[key]

C13_Witness ==
    /\ \A cls \in SingletonClasses : Len(refs[cls]) >= 2
    /\ Len(logged) = 2
    /\ configured["test_key"] = "test_value"

\* C14: Configuration's initialisation runs only on the first construction: a
\* later Configuration() call neither resets nor replaces the settings
\* mapping, so every key set earlier is still returned by get.
C14_SettingsSurviveConstruction ==
    /\ cfg_before.ref # 0
          => /\ heap[config_instance].settings = cfg_before.ref
             /\ heap[cfg_before.ref].items = cfg_before.items
    /\ config_instance # 0
          => \A key \in Keys :
                configured[key] # None
                   => Configuration_get(heap, config_instance, key) = configured[key]

C14_Witness ==
    /\ cfg_before.ref # 0
    /\ cfg_before.items["app_name"] = "MyApp"
    /\ Len(refs["Configuration"]) = 3
    /\ Configuration_get(heap, refs["Configuration"][3], "app_name") = "MyApp"

Ops == [i \in 1..Len(calls) |-> calls[i].op]
SavedIn == {s \in CallsOf("save") : ~Failed(calls[s])}

\* C15: within one process_order call no step is retried: validate runs once,
\* save at most once, notify at most once; for a valid order whose save and
\* notification succeed the calls are validate, save, notify, once each in
\* that order, and the success result carries the id that save returned.
C15_EachStepOnce ==
    calls # <<>>
        => /\ Cardinality(CallsOf("validate")) = 1
           /\ Cardinality(CallsOf("save")) <= 1
           /\ Cardinality(CallsOf("notify")) <= 1
           /\ Ops[1] = "validate"
           /\ result.success
                 <=> /\ Violated(order) = {}
                     /\ \A i \in CallsOf("save") \cup CallsOf("notify") : ~Failed(calls[i])
           /\ result.success
                 => /\ Ops = <<"validate", "save", "notify">>
                    /\ result.order_id = calls[2].order_id
                    /\ result.order_id = returned[Len(returned)]
                    /\ calls[3].order_id = calls[2].order_id

C15_Witness ==
    /\ result.success
    /\ Ops = <<"validate", "save", "notify">>
    /\ result.order_id = 2
    /\ Len(before.returned) = 1

\* C16: a stored record is never changed or removed: a successful save
\* appends exactly one record holding the assigned id, the order's customer
\* identifier and the given total and leaves the earlier records as they
\* were; process_order leaves the order it was given unchanged.
C16_RecordsAppendOnly ==
    LET n == Len(before.orders)
    IN  /\ Len(orders) >= n
        /\ SubSeq(orders, 1, n) = before.orders
        /\ SavedIn = {} => orders = before.orders
        /\ \A s \in SavedIn :
              /\ Len(orders) = n + 1
              /\ orders[n + 1] = [id |-> calls[s].order_id,
                                  customer_email |-> before.order.customer_email,
                                  total |-> calls[s].total]
        /\ order = before.order

C16_Witness ==
    /\ Len(before.orders) = 1
    /\ Len(orders) = 2
    /\ orders[1] = before.orders[1]
    /\ orders[2].customer_email = order.customer_email
    /\ SavedIn # {}

====
